---- MODULE Spec2Model ----
(***************************************************************************)
(* Model of the Darwin Core archive ETL: descriptor mapping                *)
(* (etl/extract.py), core-id resolution (main.py), header indexing         *)
(* (FileMetadata.get_header), the chunked transform (etl/transform.py),    *)
(* the output writer (etl/load.py), and ETLPipeline.run with its phases,   *)
(* download_data and the per-descriptor loop (main.py, etl/extract.py).    *)
(*                                                                         *)
(* Conventions.                                                            *)
(*  - A Python "T | None" value is a sequence of at most one T:            *)
(*    None is <<>> and a present value x is <<x>>.                         *)
(*  - Terms and column names are sequences of one-character strings, so    *)
(*    that term.split("/")[-1] is computed and not looked up.              *)
(*  - Cell values are TLA+ strings; "" is the empty field.                 *)
(***************************************************************************)
EXTENDS Integers, Sequences, FiniteSets, TLC

VARIABLES
    pc,                      \* position of the unit being run
    meta_elements,           \* MetaDwCA.meta_elements handed to map_dwca_metadata
    archive_metadata,        \* result of map_dwca_metadata
    file_metadata,           \* the FileMetadata a unit works on
    core_id_column,          \* result of _determine_core_id_column
    core_id_column_name,     \* argument of get_header
    indexed_header,          \* get_header()[0]
    default_fields_metadata, \* get_header()[1]
    raw_rows,                \* the data rows of one descriptor, before chunking
    files,                   \* the chunk files read by transform_extension_data
    deduplicate_columns,     \* config.deduplicate_columns
    ddf,                     \* result of transform_extension_data
    ddf_again,               \* result of a second transform of the same chunk set
    output_file,             \* content of the file at output_path
    output_before,           \* content of that file when save_dataframe_to_file is called
    write_pos,               \* lines already written to output_path
    mode,                    \* argument of ETLPipeline.run
    download_retries,        \* config.download_retries
    attempt,                 \* download_data: the loop variable i
    slept,                   \* download_data: the waits made, in units of backoff_factor
    zip_exists,              \* config.zip_path.exists()
    meta_exists,             \* (config.extract_dir / "meta.xml").exists()
    chunk_rows,              \* the chunk files in extract_dir, for each descriptor
    file_idx,                \* position of _run_processing_phase in files_to_process
    events,                  \* what the run has done so far, in order
    raised,                  \* the exception that reached the handlers of run
    exit_status              \* argument of sys.exit

vars == <<pc, meta_elements, archive_metadata, file_metadata, core_id_column,
          core_id_column_name, indexed_header, default_fields_metadata, raw_rows,
          files, deduplicate_columns, ddf, ddf_again, output_file, output_before,
          write_pos, mode, download_retries, attempt, slept, zip_exists, meta_exists,
          chunk_rows, file_idx, events, raised, exit_status>>

\* the state of ETLPipeline.run and of download_data
runVars == <<mode, download_retries, attempt, slept, zip_exists, meta_exists,
             chunk_rows, file_idx, events, raised, exit_status>>

----------------------------------------------------------------------------
(* Bounds of the model *)

\* largest ordinal index a field, id_index or coreid_index may carry
MaxIndex == 2
\* largest number of fields of one descriptor
MaxFields == 2

----------------------------------------------------------------------------
(* Optional values and small helpers *)

None == <<>>
Some(x) == <<x>>

Max2(a, b) == IF a >= b THEN a ELSE b

SetMax(S) == CHOOSE m \in S : \A x \in S : x <= m

SeqsUpTo(S, n) == UNION {[1..k -> S] : k \in 0..n}

Range(s) == {s[i] : i \in DOMAIN s}

\* Python dict assignment m[k] = v on a dict modelled as a function
DictPut(m, k, v) == [j \in (DOMAIN m) \cup {k} |-> IF j = k THEN v ELSE m[j]]

EmptyDict == [j \in {} |-> <<>>]

----------------------------------------------------------------------------
(* Strings that the program takes apart *)

EmptyStr == <<>>
IdLiteral == <<"i", "d">>

\* term.split("/")[-1]: the part after the last "/", the whole string when
\* there is none
LastSegment(term) ==
    LET slashes == {i \in 1..Len(term) : term[i] = "/"}
        last == IF slashes = {} THEN 0 ELSE SetMax(slashes)
    IN SubSeq(term, last + 1, Len(term))

\* Python truthiness of a "str | None": None and "" are falsy
Truthy(opt) == opt # None /\ opt[1] # EmptyStr

\* FieldMetadata.__init__
FieldMetadata(index, term, default) ==
    [index |-> index,
     term |-> term,
     name |-> IF term # EmptyStr THEN Some(LastSegment(term)) ELSE None,
     default |-> default]

\* FileMetadata.__init__ (path, row type, delimiter are carried by no claim)
FileMetadata(fields, ignore_header_lines, id_index, coreid_index) ==
    [fields |-> fields,
     ignore_header_lines |-> ignore_header_lines,
     id_index |-> id_index,
     coreid_index |-> coreid_index]

----------------------------------------------------------------------------
(* FileMetadata.get_header *)

\* field.name or ""
NameOrEmpty(field) == IF Truthy(field.name) THEN field.name[1] ELSE EmptyStr

\* the state of the loop over self.fields after its first n iterations
RECURSIVE FieldsLoop(_, _)
FieldsLoop(fields, n) ==
    IF n = 0
    THEN [header_map |-> EmptyDict, max_index |-> -1, defaults |-> <<>>]
    ELSE LET s == FieldsLoop(fields, n - 1)
             field == fields[n]
         IN IF field.index # None
            THEN [s EXCEPT !.header_map = DictPut(@, field.index[1], NameOrEmpty(field)),
                           !.max_index = Max2(@, field.index[1])]
            ELSE IF field.default # None /\ field.name # None
                 THEN [s EXCEPT !.defaults = Append(@, field)]
                 ELSE s

\* CoreIdRules with the core file's id rule overwriting a field's mapping
CoreIdRules_CoreOverwrites(d, s, name) ==
    IF name = None
    THEN s
    ELSE IF d.coreid_index # None
         THEN [s EXCEPT !.header_map = DictPut(@, d.coreid_index[1], name[1]),
                        !.max_index = Max2(@, d.coreid_index[1])]
         ELSE IF d.id_index # None
              THEN [s EXCEPT !.header_map = DictPut(@, d.id_index[1], name[1]),
                             !.max_index = Max2(@, d.id_index[1])]
              ELSE s

\* CoreIdRules with max_index left alone by the extension file's rule
CoreIdRules_NoMax(d, s, name) ==
    IF name = None
    THEN s
    ELSE IF d.coreid_index # None
         THEN [s EXCEPT !.header_map = DictPut(@, d.coreid_index[1], name[1])]
         ELSE IF d.id_index # None
              THEN [s EXCEPT !.header_map =
                                 IF d.id_index[1] \notin DOMAIN @
                                 THEN DictPut(@, d.id_index[1], name[1])
                                 ELSE @,
                             !.max_index = Max2(@, d.id_index[1])]
              ELSE s

\* the core-id rules applied to the loop's result
CoreIdRules(d, s, name) ==
    IF name = None
    THEN s
    ELSE IF d.coreid_index # None
         THEN [s EXCEPT !.header_map = DictPut(@, d.coreid_index[1], name[1]),
                        !.max_index = Max2(@, d.coreid_index[1])]
         ELSE IF d.id_index # None
              THEN [s EXCEPT !.header_map =
                                 IF d.id_index[1] \notin DOMAIN @
                                 THEN DictPut(@, d.id_index[1], name[1])
                                 ELSE @,
                             !.max_index = Max2(@, d.id_index[1])]
              ELSE s

get_header(d, name) ==
    LET s == CoreIdRules(d, FieldsLoop(d.fields, Len(d.fields)), name)
    IN [indexed_header |->
            [i \in 1..(s.max_index + 1) |->
                IF (i - 1) \in DOMAIN s.header_map THEN s.header_map[i - 1] ELSE EmptyStr],
        default_fields_metadata |-> s.defaults]

----------------------------------------------------------------------------
(* ETLPipeline._determine_core_id_column *)

\* FirstFieldNameAt without the break: the last field at id_index wins
FirstFieldNameAt_NoBreak(fields, id_index) ==
    LET hits == {i \in 1..Len(fields) : fields[i].index = id_index}
    IN IF hits = {} THEN None
       ELSE fields[CHOOSE i \in hits : \A j \in hits : i >= j].name

\* the loop with its break: the name of the first field at id_index
FirstFieldNameAt(fields, id_index) ==
    LET hits == {i \in 1..Len(fields) : fields[i].index = id_index}
    IN IF hits = {} THEN None
       ELSE fields[CHOOSE i \in hits : \A j \in hits : i <= j].name

determine_core_id_column(core) ==
    LET core_id_name == IF core.id_index # None
                        THEN FirstFieldNameAt(core.fields, core.id_index)
                        ELSE None
    IN IF Truthy(core_id_name)
       THEN core_id_name
       ELSE IF core.id_index # None THEN Some(IdLiteral) ELSE None

----------------------------------------------------------------------------
(* Inputs of the header units *)

TermA == <<"t", "/", "a">>
TermSlash == <<"t", "/">>
TermB == <<"b">>

Terms == {EmptyStr, TermA, TermSlash, TermB}

Indices == 0..MaxIndex
OptIndex == {None} \cup {Some(i) : i \in Indices}

\* fields of a descriptor: positional ones, and unindexed ones with or
\* without a default
FieldPool ==
    {FieldMetadata(Some(i), t, None) : i \in Indices, t \in Terms}
    \cup {FieldMetadata(None, t, df) : t \in {EmptyStr, TermA}, df \in {None, Some("NA")}}

NameA == <<"a">>
CoreIdNames == {None, Some(IdLiteral), Some(NameA)}

Idle == <<>>

\* a unit studied on its own: no pipeline run is in progress
RunIdle ==
    /\ mode = Idle
    /\ download_retries = 0
    /\ attempt = 0
    /\ slept = <<>>
    /\ zip_exists = FALSE
    /\ meta_exists = FALSE
    /\ chunk_rows = <<>>
    /\ file_idx = 0
    /\ events = <<>>
    /\ raised = <<>>
    /\ exit_status = <<>>

\* ArchiveMetadata.__init__
ArchiveMetadata(core, extensions) == [core |-> core, extensions |-> extensions]

\* an archive already mapped, its core descriptor being the one under study
InitHeader ==
    /\ pc = "mapped"
    /\ file_metadata \in {FileMetadata(fs, 0, id, cid) :
                              fs \in SeqsUpTo(FieldPool, MaxFields),
                              id \in OptIndex, cid \in OptIndex}
    /\ archive_metadata = Some(ArchiveMetadata(file_metadata, <<>>))
    /\ core_id_column = None
    /\ core_id_column_name = None
    /\ indexed_header = <<>>
    /\ default_fields_metadata = <<>>
    /\ meta_elements = Idle
    /\ raw_rows = Idle
    /\ files = Idle
    /\ deduplicate_columns = Idle
    /\ ddf = Idle
    /\ ddf_again = Idle
    /\ output_file = Idle
    /\ write_pos = 0
    /\ RunIdle
    /\ output_before = Idle

\* main.py: core_id_column = self._determine_core_id_column(archive_metadata)
DetermineCoreIdColumn ==
    /\ pc = "mapped"
    /\ core_id_column' = determine_core_id_column(archive_metadata[1].core)
    /\ pc' = "resolved"
    /\ UNCHANGED runVars
    /\ UNCHANGED <<meta_elements, archive_metadata, file_metadata, core_id_column_name,
                   indexed_header, default_fields_metadata, raw_rows, files,
                   deduplicate_columns, ddf, ddf_again, output_file, write_pos,
                   output_before>>

\* file_metadata.get_header(core_id_column_name=...), with the resolved name
\* or any other one
GetHeader ==
    /\ pc = "resolved"
    /\ \E name \in CoreIdNames \cup {core_id_column} :
          /\ core_id_column_name' = name
          /\ indexed_header' = get_header(file_metadata, name).indexed_header
          /\ default_fields_metadata' = get_header(file_metadata, name).default_fields_metadata
    /\ pc' = "header"
    /\ UNCHANGED runVars
    /\ UNCHANGED <<meta_elements, archive_metadata, file_metadata, core_id_column,
                   raw_rows, files, deduplicate_columns, ddf, ddf_again, output_file,
                   write_pos,
                   output_before>>

NextHeader == DetermineCoreIdColumn \/ GetHeader

SpecHeader == InitHeader /\ [][NextHeader]_vars

----------------------------------------------------------------------------
(* Properties of the header units *)

\* positions of the fields of d that carry the ordinal index i
FieldsAt(d, i) == {k \in 1..Len(d.fields) : d.fields[k].index = Some(i)}

FieldIndices(d) == {i \in Indices : FieldsAt(d, i) # {}}

\* every set value among id_index and coreid_index
SetIdIndices(d) ==
    {i \in Indices : d.id_index = Some(i) \/ d.coreid_index = Some(i)}

\* the index the id rule of get_header maps for the given name
IdRuleIndices(d, name) ==
    IF name = None THEN {}
    ELSE IF d.coreid_index # None THEN {d.coreid_index[1]}
    ELSE IF d.id_index # None THEN {d.id_index[1]}
    ELSE {}

MaxOrMinusOne(S) == IF S = {} THEN -1 ELSE SetMax(S)

UnmappedHoldEmpty(mapped) ==
    \A i \in 1..Len(indexed_header) :
        (i - 1) \notin mapped => indexed_header[i] = EmptyStr

\* C4 (as stated): the header has length 1 + the maximum over every set value
\* among the fields' ordinal indices, id_index and coreid_index, whatever the
\* optional core-id column name, and unmapped positions hold "".
C4_HeaderLengthAllIndices ==
    pc = "header" =>
        /\ Len(indexed_header) =
               1 + MaxOrMinusOne(FieldIndices(file_metadata) \cup SetIdIndices(file_metadata))
        /\ UnmappedHoldEmpty(FieldIndices(file_metadata)
                                 \cup IdRuleIndices(file_metadata, core_id_column_name))

\* C4 (amended): the header has length 1 + the maximum over the fields'
\* ordinal indices and, only when a core-id column name is supplied,
\* coreid_index if it is set and otherwise id_index if it is set; every
\* position that no field or id rule maps holds "".
C4_HeaderLength ==
    pc = "header" =>
        LET mapped == FieldIndices(file_metadata)
                          \cup IdRuleIndices(file_metadata, core_id_column_name)
        IN /\ Len(indexed_header) = 1 + MaxOrMinusOne(mapped)
           /\ UnmappedHoldEmpty(mapped)

\* a header whose length comes from coreid_index alone and that holds an
\* unmapped position
C4_Witness ==
    /\ pc = "header"
    /\ core_id_column_name # None
    /\ file_metadata.coreid_index = Some(2)
    /\ FieldIndices(file_metadata) = {0}
    /\ Len(indexed_header) = 3
    /\ indexed_header[2] = EmptyStr

\* C5: with a core-id column name supplied, an extension descriptor's header
\* holds that name at coreid_index even over a field declared there; a core
\* descriptor's header holds it at id_index when no field is declared there
\* and otherwise keeps the name of the field declared there (the last one,
\* when several are).
C5_CoreIdSlot ==
    (pc = "header" /\ core_id_column_name # None) =>
        LET d == file_metadata
        IN /\ d.coreid_index # None =>
                  indexed_header[d.coreid_index[1] + 1] = core_id_column_name[1]
           /\ (d.coreid_index = None /\ d.id_index # None) =>
                  LET at == FieldsAt(d, d.id_index[1])
                  IN indexed_header[d.id_index[1] + 1] =
                         IF at = {} THEN core_id_column_name[1]
                         ELSE NameOrEmpty(d.fields[SetMax(at)])

\* an extension header where the core-id name replaced a declared field's
\* name
C5_Witness ==
    /\ pc = "header"
    /\ core_id_column_name = Some(IdLiteral)
    /\ file_metadata.coreid_index = Some(1)
    /\ \E k \in FieldsAt(file_metadata, 1) : file_metadata.fields[k].name = Some(NameA)
    /\ indexed_header[2] = IdLiteral

\* a core header that kept its declared field's name at id_index
C5_WitnessCore ==
    /\ pc = "header"
    /\ core_id_column_name = Some(IdLiteral)
    /\ file_metadata.coreid_index = None
    /\ file_metadata.id_index = Some(0)
    /\ indexed_header[1] = NameA

\* C9 (as stated): the resolver returns none iff core.id_index is unset, and
\* otherwise the derived name of the first core field at id_index if there is
\* one and "id" if there is none.
C9_CoreIdIsFirstFieldName ==
    pc \in {"resolved", "header"} =>
        LET core == archive_metadata[1].core
        IN /\ core_id_column = None <=> core.id_index = None
           /\ core.id_index # None =>
                  LET at == FieldsAt(core, core.id_index[1])
                  IN core_id_column =
                         IF at # {}
                         THEN core.fields[CHOOSE i \in at : \A j \in at : i <= j].name
                         ELSE Some(IdLiteral)

\* C9 (amended): none iff core.id_index is unset; otherwise the derived name
\* of the first core field at id_index if there is one and its derived name
\* is present and non-empty, and "id" in every other case.
C9_CoreIdColumn ==
    pc \in {"resolved", "header"} =>
        LET core == archive_metadata[1].core
        IN /\ core_id_column = None <=> core.id_index = None
           /\ core.id_index # None =>
                  LET at == FieldsAt(core, core.id_index[1])
                      first == core.fields[CHOOSE i \in at : \A j \in at : i <= j]
                  IN core_id_column =
                         IF at # {} /\ first.name # None /\ first.name[1] # EmptyStr
                         THEN first.name
                         ELSE Some(IdLiteral)

\* two fields at id_index with different names: the first one's is returned
C9_Witness ==
    /\ pc = "resolved"
    /\ archive_metadata[1].core.id_index = Some(1)
    /\ Len(archive_metadata[1].core.fields) = 2
    /\ archive_metadata[1].core.fields[1] = FieldMetadata(Some(1), TermA, None)
    /\ archive_metadata[1].core.fields[2] = FieldMetadata(Some(1), TermB, None)
    /\ core_id_column = Some(NameA)

----------------------------------------------------------------------------
(* map_dwca_metadata *)

\* largest number of elements of one meta.xml
MaxElements == 3

Digits == <<"0", "1", "2", "3", "4", "5", "6", "7", "8", "9">>

DigitValue(c) == (CHOOSE k \in 1..10 : Digits[k] = c) - 1

\* int(s) of a decimal string
RECURSIVE ParseInt(_)
ParseInt(s) ==
    IF Len(s) = 0 THEN 0
    ELSE 10 * ParseInt(SubSeq(s, 1, Len(s) - 1)) + DigitValue(s[Len(s)])

\* the FieldMetadata list built from element.fields
MapFields(raw_fields) ==
    [k \in 1..Len(raw_fields) |->
        FieldMetadata(
            IF raw_fields[k].index # None THEN Some(ParseInt(raw_fields[k].index[1])) ELSE None,
            IF raw_fields[k].term # EmptyStr THEN raw_fields[k].term
                                             ELSE raw_fields[k].field_name,
            raw_fields[k].default)]

\* id_index of one element: set when element.core_id is there and has an index
ElementIdIndex(element) ==
    IF element.core_id # None /\ element.core_id[1].index # None
    THEN Some(ParseInt(element.core_id[1].index[1]))
    ELSE None

\* MapElement giving the identifying reference to id_index whatever the role
MapElement_IdForAll(element) ==
    FileMetadata(
        MapFields(element.fields),
        IF element.ignore_header_lines # None
        THEN ParseInt(element.ignore_header_lines[1]) ELSE 0,
        ElementIdIndex(element),
        IF element.core_or_ext_type = "extension" THEN ElementIdIndex(element) ELSE None)

\* the FileMetadata built from one element
MapElement(element) ==
    FileMetadata(
        MapFields(element.fields),
        IF element.ignore_header_lines # None
        THEN ParseInt(element.ignore_header_lines[1]) ELSE 0,
        IF element.core_or_ext_type = "core" THEN ElementIdIndex(element) ELSE None,
        IF element.core_or_ext_type = "extension" THEN ElementIdIndex(element) ELSE None)

\* the loop over meta_elements after its first n iterations
RECURSIVE ElementsLoop(_, _)
ElementsLoop(elements, n) ==
    IF n = 0
    THEN [core_meta |-> None, extensions_meta |-> <<>>]
    ELSE LET s == ElementsLoop(elements, n - 1)
             fm == MapElement(elements[n])
         IN IF elements[n].core_or_ext_type = "core"
            THEN [s EXCEPT !.core_meta = Some(fm)]
            ELSE [s EXCEPT !.extensions_meta = Append(@, fm)]

\* the archive, or None where the code raises ExtractionError
map_dwca_metadata(elements) ==
    LET s == ElementsLoop(elements, Len(elements))
    IN IF s.core_meta = None
       THEN None
       ELSE Some(ArchiveMetadata(s.core_meta[1], s.extensions_meta))

\* elements as dwcahandler hands them over: indices and header-line counts
\* are decimal strings
RawField(index, term, field_name, default) ==
    [index |-> index, term |-> term, field_name |-> field_name, default |-> default]

RawFieldLists ==
    {<<RawField(Some(<<"0">>), TermA, <<"i", "d">>, None),
       RawField(Some(<<"1">>), EmptyStr, TermB, None)>>,
     <<RawField(Some(<<"1", "0">>), TermSlash, EmptyStr, None),
       RawField(None, TermA, EmptyStr, Some("NA"))>>}

RawCoreIds ==
    {None, Some([index |-> None]), Some([index |-> Some(<<"0">>)]),
     Some([index |-> Some(<<"1">>)])}

MetaElements ==
    [core_or_ext_type : {"core", "extension"},
     core_id : RawCoreIds,
     fields : RawFieldLists,
     ignore_header_lines : {Some(<<"1">>)}]
    \cup
    [core_or_ext_type : {"extension"},
     core_id : {Some([index |-> Some(<<"0">>)])},
     fields : RawFieldLists,
     ignore_header_lines : {None}]

InitMeta ==
    /\ pc = "start"
    /\ meta_elements \in SeqsUpTo(MetaElements, MaxElements)
    /\ archive_metadata = None
    /\ file_metadata = Idle
    /\ core_id_column = None
    /\ core_id_column_name = None
    /\ indexed_header = <<>>
    /\ default_fields_metadata = <<>>
    /\ raw_rows = Idle
    /\ files = Idle
    /\ deduplicate_columns = Idle
    /\ ddf = Idle
    /\ ddf_again = Idle
    /\ output_file = Idle
    /\ write_pos = 0
    /\ RunIdle
    /\ output_before = Idle

\* parse_meta_xml: return map_dwca_metadata(meta_dwca, meta_path.parent)
MapDwcaMetadata ==
    /\ pc = "start"
    /\ archive_metadata' = map_dwca_metadata(meta_elements)
    /\ pc' = IF archive_metadata' = None THEN "ExtractionError" ELSE "mapped"
    /\ UNCHANGED runVars
    /\ UNCHANGED <<meta_elements, file_metadata, core_id_column, core_id_column_name,
                   indexed_header, default_fields_metadata, raw_rows, files,
                   deduplicate_columns, ddf, ddf_again, output_file, write_pos,
                   output_before>>

NextMeta == MapDwcaMetadata \/ DetermineCoreIdColumn

SpecMeta == InitMeta /\ [][NextMeta]_vars

----------------------------------------------------------------------------
(* Properties of map_dwca_metadata *)

CorePositions == {k \in 1..Len(meta_elements) : meta_elements[k].core_or_ext_type = "core"}

ExtensionPositions == (1..Len(meta_elements)) \ CorePositions

\* the identifying reference of an element as a number, read off the element
\* itself
IdentifyingReference(element) ==
    IF element.core_id = None \/ element.core_id[1].index = None THEN None
    ELSE IF element.core_id[1].index[1] = <<"0">> THEN Some(0) ELSE Some(1)

\* C10: map_dwca_metadata fails exactly when no element has the core role;
\* otherwise the core descriptor (of the last core element) carries the
\* identifying reference as id_index with coreid_index unset, the extensions
\* are the non-core elements in element order, each carrying its reference as
\* coreid_index with id_index unset.
C10_RoleDecidesIdSlot ==
    pc # "start" =>
        IF CorePositions = {}
        THEN pc = "ExtractionError" /\ archive_metadata = None
        ELSE /\ pc # "ExtractionError"
             /\ archive_metadata # None
             /\ LET a == archive_metadata[1]
                IN /\ a.core.id_index = IdentifyingReference(meta_elements[SetMax(CorePositions)])
                   /\ a.core.coreid_index = None
                   /\ Len(a.extensions) = Cardinality(ExtensionPositions)
                   /\ \A p \in ExtensionPositions :
                        LET x == a.extensions[Cardinality({q \in ExtensionPositions : q <= p})]
                        IN /\ x.coreid_index = IdentifyingReference(meta_elements[p])
                           /\ x.id_index = None
                           /\ Len(x.fields) = Len(meta_elements[p].fields)
                           /\ x.ignore_header_lines =
                                  IF meta_elements[p].ignore_header_lines = None THEN 0 ELSE 1
                   /\ \A d \in {a.core} \cup Range(a.extensions) :
                        d.id_index = None \/ d.coreid_index = None

\* an extension, the core, then another extension, each with its own
\* reference
C10_Witness ==
    /\ pc = "mapped"
    /\ Len(meta_elements) = 3
    /\ CorePositions = {2}
    /\ archive_metadata[1].core.id_index = Some(0)
    /\ Len(archive_metadata[1].extensions) = 2
    /\ archive_metadata[1].extensions[1].coreid_index = Some(1)
    /\ archive_metadata[1].extensions[1].ignore_header_lines = 1
    /\ archive_metadata[1].extensions[2].coreid_index = Some(0)
    /\ archive_metadata[1].extensions[2].ignore_header_lines = 0

----------------------------------------------------------------------------
(* transform_extension_data *)

\* largest number of data rows of one descriptor
MaxRows == 3
\* largest number of chunk files of one descriptor
MaxFiles == 3
\* largest ignore_header_lines
MaxSkip == 1

\* column labels: the positions read_csv(header=None) gives, and names
Pos(i) == <<"pos", i>>
Name(n) == <<"name", n>>

\* the missing-value marker of pandas, which is no string
NA == "<NaN>"

RECURSIVE Concat(_)
Concat(seqs) == IF seqs = <<>> THEN <<>> ELSE Head(seqs) \o Concat(Tail(seqs))

\* dd.read_csv(files, header=None, dtype=str, na_values=[], keep_default_na=False,
\* blocksize=None, skiprows=...): one partition per file, its first skiprows
\* lines dropped, every field kept as the string it is
ReadCsv(fs, skiprows) ==
    LET partitions == [k \in 1..Len(fs) |-> SubSeq(fs[k], skiprows + 1, Len(fs[k]))]
        all == Concat(partitions)
        ncols == IF all = <<>> THEN 0 ELSE Len(all[1])
    IN [columns |-> [i \in 1..ncols |-> Pos(i - 1)], partitions |-> partitions]

\* the value of a row on the columns at the given positions
Key(row, keypos) == [p \in keypos |-> row[p]]

\* pandas drop_duplicates (keep="first") on the rows of one frame
RECURSIVE PandasDropDuplicates(_, _)
PandasDropDuplicates(rows, keypos) ==
    IF rows = <<>> THEN <<>>
    ELSE LET n == Len(rows)
             before == PandasDropDuplicates(SubSeq(rows, 1, n - 1), keypos)
         IN IF \E j \in 1..(n - 1) : Key(rows[j], keypos) = Key(rows[n], keypos)
            THEN before
            ELSE Append(before, rows[n])

\* DaskDropDuplicates that never merges across partitions
DaskDropDuplicates_PerPartition(partitions, keypos) ==
    Concat([k \in 1..Len(partitions) |-> PandasDropDuplicates(partitions[k], keypos)])

\* dask drop_duplicates: every partition deduplicated, then the concatenation
\* of the partitions deduplicated again
DaskDropDuplicates(partitions, keypos) ==
    PandasDropDuplicates(
        Concat([k \in 1..Len(partitions) |-> PandasDropDuplicates(partitions[k], keypos)]),
        keypos)

\* subset=deduplicate_columns if deduplicate_columns else None, as column
\* labels: config.deduplicate_columns is a list of str
SubsetLabels(dedup) == {Name(dedup[k]) : k \in 1..Len(dedup)}

\* the positions drop_duplicates compares: every column without a subset
KeyPositions(columns, dedup) ==
    IF dedup = <<>> THEN DOMAIN columns
    ELSE {i \in DOMAIN columns : columns[i] \in SubsetLabels(dedup)}

\* Rename that labels as many leading columns as the header has entries
Rename_Partial(columns, header) ==
    [i \in DOMAIN columns |-> IF i <= Len(header) THEN Name(header[i]) ELSE columns[i]]

\* ddf.columns = indexed_header when the lengths agree, else the columns stay
Rename(columns, header) ==
    IF header # <<>> /\ Len(columns) = Len(header)
    THEN [i \in DOMAIN columns |-> Name(header[i])]
    ELSE columns

\* Series.fillna(value): only missing values are replaced
Fillna(cell, value) == IF cell = NA THEN value ELSE cell

\* the default-injection loop after its first n iterations
RECURSIVE InjectDefaults(_, _, _)
InjectDefaults(tbl, defaults, n) ==
    IF n = 0 THEN tbl
    ELSE LET t == InjectDefaults(tbl, defaults, n - 1)
             field == defaults[n]
         IN IF field.name = None THEN t
            ELSE IF Name(field.name[1]) \notin Range(t.columns)
                 THEN [columns |-> Append(t.columns, Name(field.name[1])),
                       rows |-> [k \in DOMAIN t.rows |-> Append(t.rows[k], field.default[1])]]
                 ELSE [columns |-> t.columns,
                       rows |-> [k \in DOMAIN t.rows |->
                                   [c \in DOMAIN t.columns |->
                                       IF t.columns[c] = Name(field.name[1])
                                       THEN Fillna(t.rows[k][c], field.default[1])
                                       ELSE t.rows[k][c]]]]

TransformationError == [status |-> "TransformationError", columns |-> <<>>, rows |-> <<>>]

\* the table after read, drop_duplicates and rename (lines 42-70), for
\* inputs that get that far
RenamedTable(fs, fm, header, dedup) ==
    LET read == ReadCsv(fs, fm.ignore_header_lines)
    IN [columns |-> Rename(read.columns, header),
        rows |-> DaskDropDuplicates(read.partitions, KeyPositions(read.columns, dedup))]

transform_extension_data(fs, fm, header, defaults, dedup) ==
    IF fs = <<>> THEN TransformationError
    ELSE LET read == ReadCsv(fs, fm.ignore_header_lines)
         IN IF Len(read.columns) = 0 THEN TransformationError
            \* drop_duplicates raises KeyError on a subset label that is no column
            ELSE IF dedup # <<>> /\ ~(SubsetLabels(dedup) \subseteq Range(read.columns))
            THEN TransformationError
            ELSE LET out == InjectDefaults(RenamedTable(fs, fm, header, dedup),
                                           defaults, Len(defaults))
                 IN [status |-> "ok", columns |-> out.columns, rows |-> out.rows]

----------------------------------------------------------------------------
(* Inputs of the transform unit *)

\* data rows: two fields each
RowPool == {<<"1", "a">>, <<"1", "">>, <<"2", "b">>}

\* the redundant header line every chunk file may start with
HeaderLine == <<"id", "a">>

\* descriptors: positional fields, then fields with a default and no index
PositionalFields ==
    {<<FieldMetadata(Some(1), TermA, None)>>,
     <<FieldMetadata(Some(1), TermSlash, None)>>,
     <<FieldMetadata(Some(2), TermA, None)>>,
     <<>>}

DefaultFields ==
    {<<>>,
     <<FieldMetadata(None, TermA, Some("NA"))>>,
     <<FieldMetadata(None, TermB, Some("X"))>>,
     <<FieldMetadata(None, TermB, Some("X")), FieldMetadata(None, TermA, Some("NA"))>>}

DedupColumnLists == {<<>>, <<IdLiteral>>, <<IdLiteral, NameA>>}

\* the ways to cut rows into at most n consecutive non-empty chunks
Splits(rows, n) ==
    IF rows = <<>> THEN {<<>>, << <<>> >>}
    ELSE LET cuts == {c \in SUBSET (1..(Len(rows) - 1)) : Cardinality(c) < n}
             Bounds(c) == c \cup {0, Len(rows)}
             Start(c, k) == CHOOSE b \in Bounds(c) : Cardinality({x \in Bounds(c) : x < b}) = k - 1
         IN {[k \in 1..(Cardinality(c) + 1) |->
                 SubSeq(rows, Start(c, k) + 1, Start(c, k + 1))] : c \in cuts}

\* chunk files: ignore_header_lines header lines, then the chunk's rows
ChunkFiles(split, skiprows) ==
    [k \in 1..Len(split) |-> [i \in 1..skiprows |-> HeaderLine] \o split[k]]

FileOrders(n) == {p \in [1..n -> 1..n] : \A i, j \in 1..n : p[i] = p[j] => i = j}

InitTransform ==
    /\ pc = "header"
    /\ raw_rows \in SeqsUpTo(RowPool, MaxRows)
    /\ file_metadata \in {FileMetadata(pf \o df, skip, Some(0), None) :
                              pf \in PositionalFields, df \in DefaultFields,
                              skip \in 0..MaxSkip}
    /\ archive_metadata = Some(ArchiveMetadata(file_metadata, <<>>))
    /\ core_id_column = determine_core_id_column(file_metadata)
    /\ core_id_column_name = core_id_column
    /\ indexed_header = get_header(file_metadata, core_id_column_name).indexed_header
    /\ default_fields_metadata =
           get_header(file_metadata, core_id_column_name).default_fields_metadata
    /\ deduplicate_columns \in DedupColumnLists
    /\ meta_elements = Idle
    /\ files = Idle
    /\ ddf = Idle
    /\ ddf_again = Idle
    /\ output_file = Idle
    /\ write_pos = 0
    /\ RunIdle
    /\ output_before = Idle

\* _process_file: the chunk files found for the descriptor are transformed
Transform ==
    /\ pc = "header"
    /\ \E split \in Splits(raw_rows, MaxFiles) :
          files' = ChunkFiles(split, file_metadata.ignore_header_lines)
    /\ ddf' = transform_extension_data(files', file_metadata, indexed_header,
                                       default_fields_metadata, deduplicate_columns)
    /\ pc' = "transformed"
    /\ UNCHANGED runVars
    /\ UNCHANGED <<meta_elements, archive_metadata, file_metadata, core_id_column,
                   core_id_column_name, indexed_header, default_fields_metadata,
                   raw_rows, deduplicate_columns, ddf_again, output_file, write_pos,
                   output_before>>

\* the same chunk set transformed a second time, the files in any order
TransformAgain ==
    /\ pc = "transformed"
    /\ \E p \in FileOrders(Len(files)) :
          ddf_again' = transform_extension_data(
                           [k \in 1..Len(files) |-> files[p[k]]], file_metadata,
                           indexed_header, default_fields_metadata, deduplicate_columns)
    /\ pc' = "transformed twice"
    /\ UNCHANGED runVars
    /\ UNCHANGED <<meta_elements, archive_metadata, file_metadata, core_id_column,
                   core_id_column_name, indexed_header, default_fields_metadata,
                   raw_rows, files, deduplicate_columns, ddf, output_file, write_pos,
                   output_before>>

NextTransform == Transform \/ TransformAgain

SpecTransform == InitTransform /\ [][NextTransform]_vars

----------------------------------------------------------------------------
(* Properties of transform_extension_data *)

Transformed == pc \in {"transformed", "transformed twice"}

\* number of columns the chunks parse to
ParsedColumns == IF raw_rows = <<>> THEN 0 ELSE Len(raw_rows[1])

\* the parsed part of a result row
Parsed(row) == SubSeq(row, 1, ParsedColumns)

ParsedRows(tbl) == {Parsed(tbl.rows[k]) : k \in DOMAIN tbl.rows}

\* the header positions named by deduplicate_columns
NamedPositions ==
    {i \in DOMAIN indexed_header : indexed_header[i] \in Range(deduplicate_columns)}

\* the equivalence classes of a set of rows, each given by its key
Classes(rows, keypos) == {Key(r, keypos) : r \in rows}

OnePerClass(tbl, keypos) ==
    /\ Classes(ParsedRows(tbl), keypos) = Classes(Range(raw_rows), keypos)
    /\ Len(tbl.rows) = Cardinality(Classes(Range(raw_rows), keypos))
    /\ ParsedRows(tbl) \subseteq Range(raw_rows)

\* C1: with a header as long as the parsed columns and a non-empty
\* deduplicate_columns naming header columns, the transform succeeds and
\* holds exactly one row for each distinct combination of values in the
\* named columns.
C1_DedupByNamedColumns ==
    (/\ Transformed
     /\ raw_rows # <<>>
     /\ Len(indexed_header) = ParsedColumns
     /\ deduplicate_columns # <<>>
     /\ Range(deduplicate_columns) \subseteq Range(indexed_header))
    => /\ ddf.status = "ok"
       /\ OnePerClass(ddf, NamedPositions)

\* C2: default injection. A default field whose name is no column of the
\* table gets a new column holding the default in every row; one whose name
\* is a column has the default in every cell of that column that was the
\* empty string, the other cells unchanged.
C2_DefaultInjection ==
    (Transformed /\ ddf.status = "ok") =>
        LET before == RenamedTable(files, file_metadata, indexed_header,
                                   deduplicate_columns)
        IN \A n \in DOMAIN default_fields_metadata :
             LET field == default_fields_metadata[n]
                 label == Name(field.name[1])
                 at == {c \in DOMAIN ddf.columns : ddf.columns[c] = label}
             IN /\ Len(ddf.rows) = Len(before.rows)
                /\ IF label \notin Range(before.columns)
                   THEN /\ Cardinality(at) = 1
                        /\ \A c \in at : c > Len(before.columns)
                        /\ \A c \in at : \A k \in DOMAIN ddf.rows :
                               ddf.rows[k][c] = field.default[1]
                   ELSE \A c \in at : \A k \in DOMAIN ddf.rows :
                            ddf.rows[k][c] =
                                IF before.rows[k][c] = "" THEN field.default[1]
                                ELSE before.rows[k][c]

HeaderMismatch == Transformed /\ raw_rows # <<>> /\ Len(indexed_header) # ParsedColumns

PositionalColumns == [i \in 1..ParsedColumns |-> Pos(i - 1)]

RECURSIVE DistinctNames(_)
DistinctNames(fields) ==
    IF fields = <<>> THEN <<>>
    ELSE LET n == Len(fields)
             before == DistinctNames(SubSeq(fields, 1, n - 1))
         IN IF fields[n].name[1] \in Range(before) THEN before
            ELSE Append(before, fields[n].name[1])

C7_ChunkingInvisible ==
    Transformed =>
        LET whole == transform_extension_data(
                         ChunkFiles(<<raw_rows>>, file_metadata.ignore_header_lines),
                         file_metadata, indexed_header, default_fields_metadata,
                         deduplicate_columns)
            keypos == KeyPositions(PositionalColumns, deduplicate_columns)
        IN /\ ddf.status = whole.status
           /\ ddf.status = "ok" =>
                 /\ ddf.columns = whole.columns
                 /\ OnePerClass(ddf, keypos)
                 /\ Range(ddf.rows) = Range(whole.rows)

\* equal rows lying in different chunk files, one of them kept
C7_Witness ==
    /\ Transformed
    /\ raw_rows = << <<"1", "a">>, <<"2", "b">>, <<"1", "a">> >>
    /\ Len(files) = 3
    /\ file_metadata.ignore_header_lines = 1
    /\ ddf.status = "ok"
    /\ Len(ddf.rows) = 2

\* C8: transforming the same chunk set twice gives two results holding the
\* same set of rows, for empty and for non-empty deduplicate_columns.
C8_TwiceSetEqual ==
    (/\ pc = "transformed twice"
     /\ raw_rows # <<>>
     /\ \/ deduplicate_columns = <<>>
        \/ /\ Len(indexed_header) = ParsedColumns
           /\ Range(deduplicate_columns) \subseteq Range(indexed_header))
    => /\ ddf.status = "ok"
       /\ ddf_again.status = "ok"
       /\ ddf.columns = ddf_again.columns
       /\ Range(ddf.rows) = Range(ddf_again.rows)

\* the part of C8 the code keeps: with an empty deduplicate_columns both runs
\* succeed with the same set of rows
FullRowTwiceSetEqual ==
    (pc = "transformed twice" /\ raw_rows # <<>> /\ deduplicate_columns = <<>>)
    => /\ ddf.status = "ok"
       /\ ddf_again.status = "ok"
       /\ ddf.columns = ddf_again.columns
       /\ Range(ddf.rows) = Range(ddf_again.rows)

----------------------------------------------------------------------------
(* save_dataframe_to_file *)

\* the text of a column label in the header row
LabelText(label) == IF label[1] = "pos" THEN <<Digits[label[2] + 1]>> ELSE label[2]

\* the text of a cell: a missing value is written as the empty field
CellText(cell) == IF cell = NA THEN "" ELSE cell

\* to_csv(index=False): the header row, then one line for each row
Serialize(tbl) ==
    << [c \in DOMAIN tbl.columns |-> LabelText(tbl.columns[c])] >>
    \o [k \in DOMAIN tbl.rows |-> [c \in DOMAIN tbl.rows[k] |-> CellText(tbl.rows[k][c])]]

\* what an earlier run left at output_path
OldOutput == << <<IdLiteral, NameA>>, <<"9", "z">> >>

LoadDescriptors ==
    {FileMetadata(pf \o df, 0, Some(0), None) :
         pf \in {<<FieldMetadata(Some(1), TermA, None)>>, <<>>},
         df \in {<<>>, <<FieldMetadata(None, TermB, Some("X"))>>}}

\* a table as _process_file hands it to save_dataframe_to_file
InitLoad ==
    /\ pc = "transformed"
    /\ raw_rows \in SeqsUpTo(RowPool, MaxRows) \ {<<>>}
    /\ file_metadata \in LoadDescriptors
    /\ archive_metadata = Some(ArchiveMetadata(file_metadata, <<>>))
    /\ core_id_column = determine_core_id_column(file_metadata)
    /\ core_id_column_name = core_id_column
    /\ indexed_header = get_header(file_metadata, core_id_column_name).indexed_header
    /\ default_fields_metadata =
           get_header(file_metadata, core_id_column_name).default_fields_metadata
    /\ deduplicate_columns = <<>>
    /\ meta_elements = Idle
    /\ files = ChunkFiles(<<raw_rows>>, 0)
    /\ ddf = transform_extension_data(files, file_metadata, indexed_header,
                                      default_fields_metadata, deduplicate_columns)
    /\ ddf_again = Idle
    /\ output_file \in {None, Some(OldOutput)}
    /\ output_before = output_file
    /\ write_pos = 0
    /\ RunIdle

\* to_csv opens output_path for writing: the file is created or truncated
OpenOutput ==
    /\ pc = "transformed"
    /\ ddf.status = "ok"
    /\ output_file' = Some(<<>>)
    /\ write_pos' = 0
    /\ pc' = "writing"
    /\ UNCHANGED runVars
    /\ UNCHANGED <<meta_elements, archive_metadata, file_metadata, core_id_column,
                   core_id_column_name, indexed_header, default_fields_metadata,
                   raw_rows, files, deduplicate_columns, ddf, ddf_again, output_before>>

\* the next line of the serialization reaches the file
WriteLine ==
    /\ pc = "writing"
    /\ write_pos < Len(Serialize(ddf))
    /\ output_file' = Some(Append(output_file[1], Serialize(ddf)[write_pos + 1]))
    /\ write_pos' = write_pos + 1
    /\ UNCHANGED runVars
    /\ UNCHANGED <<pc, meta_elements, archive_metadata, file_metadata, core_id_column,
                   core_id_column_name, indexed_header, default_fields_metadata,
                   raw_rows, files, deduplicate_columns, ddf, ddf_again, output_before>>

\* to_csv returns: "Successfully created"
CloseOutput ==
    /\ pc = "writing"
    /\ write_pos = Len(Serialize(ddf))
    /\ pc' = "saved"
    /\ UNCHANGED runVars
    /\ UNCHANGED <<meta_elements, archive_metadata, file_metadata, core_id_column,
                   core_id_column_name, indexed_header, default_fields_metadata,
                   raw_rows, files, deduplicate_columns, ddf, ddf_again, output_file,
                   output_before, write_pos>>

\* an I/O or encoding failure inside to_csv, before the file is opened or
\* at any point of the write: except Exception -> raise LoadingError, with
\* the file left as it is
WriteFails ==
    /\ pc \in {"transformed", "writing"}
    /\ ddf.status = "ok"
    /\ pc' = "LoadingError"
    /\ UNCHANGED runVars
    /\ UNCHANGED <<meta_elements, archive_metadata, file_metadata, core_id_column,
                   core_id_column_name, indexed_header, default_fields_metadata,
                   raw_rows, files, deduplicate_columns, ddf, ddf_again, output_file,
                   output_before, write_pos>>

NextLoad == OpenOutput \/ WriteLine \/ CloseOutput \/ WriteFails

SpecLoad == InitLoad /\ [][NextLoad]_vars

----------------------------------------------------------------------------
(* Properties of save_dataframe_to_file *)

\* C3: when the write fails with LoadingError, the file at output_path is
\* absent or unchanged from before the call, or is the complete
\* serialization of the table; never a part of it.
C3_NoPartialOutput ==
    pc = "LoadingError" =>
        \/ output_file = output_before
        \/ output_file = Some(Serialize(ddf))

\* a successful write leaves the complete serialization
SavedIsComplete == pc = "saved" => output_file = Some(Serialize(ddf))

----------------------------------------------------------------------------
(* ETLPipeline.run, its three phases, download_data and _process_file *)

MaxRetries == 2

Modes == {"all", "download", "process"}

\* everything but pc that the units of the earlier sections work on
dataVars == <<meta_elements, archive_metadata, file_metadata, core_id_column,
              core_id_column_name, indexed_header, default_fields_metadata, raw_rows,
              files, deduplicate_columns, ddf, ddf_again, output_file, output_before,
              write_pos>>

Event(ev, k) == [ev |-> ev, k |-> k]

\* files_to_process = [archive_metadata.core] + archive_metadata.extensions
FilesToProcess_ExtensionsFirst(am) == am.extensions \o <<am.core>>

FilesToProcess(am) == <<am.core>> \o am.extensions

\* the rest of run after _run_unzip_phase returned
AfterUnzip_AlwaysProcess(m) == "processing"

AfterUnzip(m) == IF m = "download" THEN "returned" ELSE "processing"

\* _process_file after transform_extension_data: the table goes on to
\* len(df) and save_dataframe_to_file, a TransformationError leaves
\* _process_file and the loop of _run_processing_phase
TransformOutcome_NextFile(result) ==
    IF result.status = "ok" THEN "computed" ELSE "file done"

TransformOutcome(result) ==
    IF result.status = "ok" THEN "computed" ELSE "TransformationError"

\* the archive of a run: a core element and two distinguishable extensions
CoreElement ==
    [core_or_ext_type |-> "core", core_id |-> Some([index |-> Some(<<"0">>)]),
     fields |-> <<RawField(Some(<<"0">>), TermA, <<"i", "d">>, None),
                  RawField(Some(<<"1">>), EmptyStr, TermB, None)>>,
     ignore_header_lines |-> Some(<<"1">>)]

ExtensionElement(ignore_header_lines) ==
    [core_or_ext_type |-> "extension", core_id |-> Some([index |-> Some(<<"0">>)]),
     fields |-> <<RawField(Some(<<"0">>), TermA, <<"i", "d">>, None),
                  RawField(Some(<<"1">>), EmptyStr, TermB, None)>>,
     ignore_header_lines |-> ignore_header_lines]

RunElementLists ==
    {<<>>,
     <<ExtensionElement(None)>>,
     <<CoreElement>>,
     <<CoreElement, ExtensionElement(None)>>,
     <<ExtensionElement(Some(<<"1">>)), CoreElement, ExtensionElement(None)>>}

\* what extract_dir.glob(pattern) finds for a descriptor: no file, one
\* file, or the same rows in two chunk files
ChunkOptions ==
    {<<>>,
     << <<<<"1", "a">>, <<"2", "b">>>> >>,
     << <<<<"1", "a">>>>, <<<<"2", "b">>>> >>}

RunDedupColumnLists == {<<>>, <<IdLiteral>>}

\* python -m main --mode <mode>, before ETLPipeline.run
Init ==
    /\ pc = "run"
    /\ mode \in Modes
    /\ download_retries \in 0..MaxRetries
    /\ attempt = 0
    /\ slept = <<>>
    /\ zip_exists \in BOOLEAN
    /\ meta_exists \in BOOLEAN
    /\ meta_elements \in RunElementLists
    /\ chunk_rows \in [1..Len(meta_elements) -> ChunkOptions]
    /\ deduplicate_columns \in RunDedupColumnLists
    /\ file_idx = 1
    /\ events = <<>>
    /\ raised = None
    /\ exit_status = None
    /\ archive_metadata = None
    /\ file_metadata = Idle
    /\ core_id_column = None
    /\ core_id_column_name = None
    /\ indexed_header = <<>>
    /\ default_fields_metadata = <<>>
    /\ raw_rows = Idle
    /\ files = Idle
    /\ ddf = Idle
    /\ ddf_again = Idle
    /\ output_file = None
    /\ output_before = None
    /\ write_pos = 0

\* run: apply_dwcahandler_patches(), _prepare_directories(), then the
\* branch on mode
PrepareDirectories ==
    /\ pc = "run"
    /\ pc' = IF mode \in {"all", "download"} THEN "download" ELSE "process"
    /\ UNCHANGED dataVars
    /\ UNCHANGED runVars

\* mkdir fails: an OSError, which is no ETLError
PrepareFails ==
    /\ pc = "run"
    /\ pc' = "Exception"
    /\ UNCHANGED dataVars
    /\ UNCHANGED runVars

\* _run_download_phase: download_data is entered
DownloadPhase ==
    /\ pc = "download"
    /\ events' = Append(events, Event("download", 0))
    /\ attempt' = 0
    /\ pc' = "downloading"
    /\ UNCHANGED dataVars
    /\ UNCHANGED <<mode, download_retries, slept, zip_exists, meta_exists, chunk_rows,
                   file_idx, raised, exit_status>>

\* download_data, an iteration whose request succeeds: the archive is
\* written to dest and the function returns
AttemptSucceeds ==
    /\ pc = "downloading"
    /\ attempt < download_retries
    /\ events' = events \o <<Event("attempt ok", attempt), Event("download returned", 0)>>
    /\ zip_exists' = TRUE
    /\ pc' = "unzip"
    /\ UNCHANGED dataVars
    /\ UNCHANGED <<mode, download_retries, attempt, slept, meta_exists, chunk_rows,
                   file_idx, raised, exit_status>>

\* download_data, an iteration that ends in a RequestException: sleep and
\* go on when i < retries - 1, raise ExtractionError otherwise
AttemptFails ==
    /\ pc = "downloading"
    /\ attempt < download_retries
    /\ events' = Append(events, Event("attempt failed", attempt))
    /\ IF attempt < download_retries - 1
       THEN /\ slept' = Append(slept, 2 ^ attempt)
            /\ attempt' = attempt + 1
            /\ pc' = "downloading"
       ELSE /\ pc' = "ExtractionError"
            /\ UNCHANGED <<slept, attempt>>
    /\ UNCHANGED dataVars
    /\ UNCHANGED <<mode, download_retries, zip_exists, meta_exists, chunk_rows,
                   file_idx, raised, exit_status>>

\* download_data, an iteration that ends in an exception that is no
\* RequestException (dest cannot be opened or written): it leaves
\* download_data as it is
AttemptCrashes ==
    /\ pc = "downloading"
    /\ attempt < download_retries
    /\ events' = Append(events, Event("attempt crashed", attempt))
    /\ pc' = "Exception"
    /\ UNCHANGED dataVars
    /\ UNCHANGED <<mode, download_retries, attempt, slept, zip_exists, meta_exists,
                   chunk_rows, file_idx, raised, exit_status>>

\* download_data: range(retries) is exhausted and the function ends
\* without a return statement
LoopExhausted ==
    /\ pc = "downloading"
    /\ ~(attempt < download_retries)
    /\ events' = Append(events, Event("download returned", 0))
    /\ pc' = "unzip"
    /\ UNCHANGED dataVars
    /\ UNCHANGED <<mode, download_retries, attempt, slept, zip_exists, meta_exists,
                   chunk_rows, file_idx, raised, exit_status>>

\* run, mode "process": unzip when the archive is there
ProcessModeUnzip ==
    /\ pc = "process"
    /\ pc' = IF zip_exists THEN "unzip" ELSE "processing"
    /\ UNCHANGED dataVars
    /\ UNCHANGED runVars

\* _run_unzip_phase: ETLError without an archive; extract_archive fills
\* extract_dir or raises ExtractionError
UnzipPhase ==
    /\ pc = "unzip"
    /\ events' = Append(events, Event("unzip", 0))
    /\ IF ~zip_exists
       THEN /\ pc' = "ETLError"
            /\ UNCHANGED meta_exists
       ELSE \E extracted \in BOOLEAN, has_meta \in BOOLEAN :
               IF extracted
               THEN /\ meta_exists' = (meta_exists \/ has_meta)
                    /\ pc' = AfterUnzip(mode)
               ELSE /\ pc' = "ExtractionError"
                    /\ UNCHANGED meta_exists
    /\ UNCHANGED dataVars
    /\ UNCHANGED <<mode, download_retries, attempt, slept, zip_exists, chunk_rows,
                   file_idx, raised, exit_status>>

\* _run_processing_phase up to parse_meta_xml
ProcessingPhase ==
    /\ pc = "processing"
    /\ events' = Append(events, Event("processing", 0))
    /\ pc' = IF meta_exists THEN "start" ELSE "ETLError"
    /\ UNCHANGED dataVars
    /\ UNCHANGED <<mode, download_retries, attempt, slept, zip_exists, meta_exists,
                   chunk_rows, file_idx, raised, exit_status>>

\* _process_file: get_header for the next entry of files_to_process
ProcessFileHeader ==
    /\ pc \in {"resolved", "file done"}
    /\ file_idx <= Len(FilesToProcess(archive_metadata[1]))
    /\ file_metadata' = FilesToProcess(archive_metadata[1])[file_idx]
    /\ core_id_column_name' = core_id_column
    /\ indexed_header' = get_header(file_metadata', core_id_column).indexed_header
    /\ default_fields_metadata' =
           get_header(file_metadata', core_id_column).default_fields_metadata
    /\ events' = Append(events, Event("header", file_idx))
    /\ pc' = "header"
    /\ UNCHANGED <<meta_elements, archive_metadata, core_id_column, raw_rows, files,
                   deduplicate_columns, ddf, ddf_again, output_file, output_before,
                   write_pos>>
    /\ UNCHANGED <<mode, download_retries, attempt, slept, zip_exists, meta_exists,
                   chunk_rows, file_idx, raised, exit_status>>

\* the chunk files of the descriptor that file_metadata came from
ChunksOf(fm) ==
    LET at == {i \in 1..Len(meta_elements) : MapElement(meta_elements[i]) = fm}
    IN chunk_rows[CHOOSE i \in at : TRUE]

\* _process_file: glob for the chunk files; without one, warn and return
LocateChunks ==
    /\ pc = "header"
    /\ files' = ChunkFiles(ChunksOf(file_metadata), file_metadata.ignore_header_lines)
    /\ IF files' = <<>>
       THEN /\ events' = events \o <<Event("locate", file_idx), Event("skip", file_idx)>>
            /\ file_idx' = file_idx + 1
            /\ pc' = "file done"
       ELSE /\ events' = Append(events, Event("locate", file_idx))
            /\ pc' = "located"
            /\ UNCHANGED file_idx
    /\ UNCHANGED <<meta_elements, archive_metadata, file_metadata, core_id_column,
                   core_id_column_name, indexed_header, default_fields_metadata, raw_rows,
                   deduplicate_columns, ddf, ddf_again, output_file, output_before,
                   write_pos>>
    /\ UNCHANGED <<mode, download_retries, attempt, slept, zip_exists, meta_exists,
                   chunk_rows, raised, exit_status>>

\* _process_file: transform_extension_data on the files found
TransformFile ==
    /\ pc = "located"
    /\ ddf' = transform_extension_data(files, file_metadata, indexed_header,
                                       default_fields_metadata, deduplicate_columns)
    /\ events' = Append(events, Event("transform", file_idx))
    /\ pc' = TransformOutcome(ddf')
    /\ UNCHANGED <<meta_elements, archive_metadata, file_metadata, core_id_column,
                   core_id_column_name, indexed_header, default_fields_metadata, raw_rows,
                   files, deduplicate_columns, ddf_again, output_file, output_before,
                   write_pos>>
    /\ UNCHANGED <<mode, download_retries, attempt, slept, zip_exists, meta_exists,
                   chunk_rows, file_idx, raised, exit_status>>

\* _process_file: save_dataframe_to_file is called for the descriptor's
\* own output path, in an output directory that starts empty
SaveDataframe ==
    /\ pc = "computed"
    /\ events' = Append(events, Event("write", file_idx))
    /\ output_file' = None
    /\ output_before' = None
    /\ write_pos' = 0
    /\ pc' = "transformed"
    /\ UNCHANGED <<meta_elements, archive_metadata, file_metadata, core_id_column,
                   core_id_column_name, indexed_header, default_fields_metadata, raw_rows,
                   files, deduplicate_columns, ddf, ddf_again>>
    /\ UNCHANGED <<mode, download_retries, attempt, slept, zip_exists, meta_exists,
                   chunk_rows, file_idx, raised, exit_status>>

\* _process_file returns after the write, the loop goes on
FileSaved ==
    /\ pc = "saved"
    /\ events' = Append(events, Event("written", file_idx))
    /\ file_idx' = file_idx + 1
    /\ pc' = "file done"
    /\ UNCHANGED dataVars
    /\ UNCHANGED <<mode, download_retries, attempt, slept, zip_exists, meta_exists,
                   chunk_rows, raised, exit_status>>

\* the loop of _run_processing_phase ends: "All files processed."
AllFilesProcessed ==
    /\ pc \in {"resolved", "file done"}
    /\ file_idx > Len(FilesToProcess(archive_metadata[1]))
    /\ pc' = "returned"
    /\ UNCHANGED dataVars
    /\ UNCHANGED runVars

ETLErrors == {"ETLError", "ExtractionError", "TransformationError", "LoadingError"}

\* run: except ETLError -> sys.exit(1)
HandleETLError ==
    /\ pc \in ETLErrors
    /\ raised' = Some(pc)
    /\ exit_status' = Some(1)
    /\ pc' = "exited"
    /\ UNCHANGED dataVars
    /\ UNCHANGED <<mode, download_retries, attempt, slept, zip_exists, meta_exists,
                   chunk_rows, file_idx, events>>

\* run: except Exception -> sys.exit(1)
HandleException ==
    /\ pc = "Exception"
    /\ raised' = Some(pc)
    /\ exit_status' = Some(1)
    /\ pc' = "exited"
    /\ UNCHANGED dataVars
    /\ UNCHANGED <<mode, download_retries, attempt, slept, zip_exists, meta_exists,
                   chunk_rows, file_idx, events>>

Next ==
    \/ PrepareDirectories \/ PrepareFails
    \/ DownloadPhase \/ AttemptSucceeds \/ AttemptFails \/ AttemptCrashes \/ LoopExhausted
    \/ ProcessModeUnzip \/ UnzipPhase \/ ProcessingPhase
    \/ MapDwcaMetadata \/ DetermineCoreIdColumn
    \/ ProcessFileHeader \/ LocateChunks \/ TransformFile \/ SaveDataframe
    \/ OpenOutput \/ WriteLine \/ CloseOutput \/ WriteFails
    \/ FileSaved \/ AllFilesProcessed
    \/ HandleETLError \/ HandleException

Spec == Init /\ [][Next]_vars

----------------------------------------------------------------------------
(* Properties of the processing phase *)

FileEvents == {"header", "locate", "skip", "transform", "write", "written"}

IsFileEvent(e) == e.ev \in FileEvents

\* what the run did to descriptors, in order
DescriptorEvents == SelectSeq(events, IsFileEvent)

IsPrefix(s, t) == Len(s) <= Len(t) /\ s = SubSeq(t, 1, Len(s))

\* the elements in the order the claim gives: the core element, then the
\* other elements as they stand in the archive descriptor
ExpectedOrder ==
    <<SetMax(CorePositions)>>
    \o [k \in 1..Cardinality(ExtensionPositions) |->
           CHOOSE p \in ExtensionPositions :
               Cardinality({q \in ExtensionPositions : q <= p}) = k]

\* the steps of one descriptor when nothing fails
ExpectedSteps(k) ==
    IF chunk_rows[ExpectedOrder[k]] = <<>>
    THEN <<Event("header", k), Event("locate", k), Event("skip", k)>>
    ELSE <<Event("header", k), Event("locate", k), Event("transform", k),
           Event("write", k), Event("written", k)>>

RECURSIVE ExpectedEvents(_)
ExpectedEvents(n) == IF n = 0 THEN <<>> ELSE ExpectedEvents(n - 1) \o ExpectedSteps(n)

\* C11: the processing phase takes the core descriptor first and then the
\* extensions in descriptor order, each as header, locate, transform, write;
\* a descriptor without chunk files is skipped, with no transform, no write
\* and no error, and the descriptors after it are still processed.
C11_ProcessingOrder ==
    IF CorePositions = {}
    THEN DescriptorEvents = <<>>
    ELSE /\ IsPrefix(DescriptorEvents, ExpectedEvents(Len(meta_elements)))
         /\ pc = "header" =>
                file_metadata = MapElement(meta_elements[ExpectedOrder[file_idx]])
         /\ (events # <<>> /\ events[Len(events)].ev = "skip") =>
                /\ pc \in {"file done", "header", "returned"}
                /\ raised = None
                /\ exit_status = None
         /\ (pc = "returned" /\ mode # "download") =>
                DescriptorEvents = ExpectedEvents(Len(meta_elements))

\* an extension, the core, another extension: the core was written first,
\* the first extension had no chunk file, the second was written after it
C11_Witness ==
    /\ pc = "returned"
    /\ Len(meta_elements) = 3
    /\ CorePositions = {2}
    /\ DescriptorEvents =
          <<Event("header", 1), Event("locate", 1), Event("transform", 1),
            Event("write", 1), Event("written", 1),
            Event("header", 2), Event("locate", 2), Event("skip", 2),
            Event("header", 3), Event("locate", 3), Event("transform", 3),
            Event("write", 3), Event("written", 3)>>
    /\ file_metadata = archive_metadata[1].extensions[2]
    /\ output_file = Some(Serialize(ddf))

\* the run is leaving, or has left, through an error of the named kind
Failing(kind) == pc = kind \/ raised = Some(kind)

LastEvent == events[Len(events)]

C12_Invariant ==
    /\ \A i, j \in DOMAIN events :
          (events[i].ev \in {"transform", "write"} /\ events[i] = events[j]) => i = j
    /\ Failing("TransformationError") =>
          /\ LastEvent = Event("transform", file_idx)
          /\ \A i \in DOMAIN events :
                events[i] \notin {Event("write", file_idx), Event("written", file_idx)}
    /\ Failing("LoadingError") => LastEvent = Event("write", file_idx)
    /\ (Failing("TransformationError") \/ Failing("LoadingError")) =>
          \A i \in DOMAIN events : IsFileEvent(events[i]) => events[i].k <= file_idx
    /\ raised # None => pc = "exited" /\ exit_status = Some(1)

\* the step that follows a failure of transform or write
C12_FailureExits ==
    pc \in {"TransformationError", "LoadingError"} =>
        (pc' = "exited" /\ exit_status' = Some(1) /\ events' = events)

\* C12: a TransformationError or LoadingError is fatal and not retried: each
\* descriptor is transformed at most once and written at most once, a
\* descriptor whose transform failed is never written, and the step after
\* the failure is the exit with status 1, with no later descriptor touched.
C12_FatalNotRetried == []C12_Invariant /\ [][C12_FailureExits]_vars

\* the core had no chunk file, the transform of the first extension failed,
\* and the second extension, which has chunk files, was never looked at
C12_Witness ==
    /\ raised = Some("TransformationError")
    /\ exit_status = Some(1)
    /\ Len(meta_elements) = 3
    /\ CorePositions = {2}
    /\ file_idx = 2
    /\ chunk_rows[3] # <<>>
    /\ DescriptorEvents =
          <<Event("header", 1), Event("locate", 1), Event("skip", 1),
            Event("header", 2), Event("locate", 2), Event("transform", 2)>>

----------------------------------------------------------------------------
(* Properties of download_data *)

EventsOf(kinds) == {i \in DOMAIN events : events[i].ev \in kinds}

\* download_data raised ExtractionError
DownloadRaised ==
    /\ EventsOf({"download"}) # {}
    /\ EventsOf({"download returned"}) = {}
    /\ Failing("ExtractionError")

\* attempts are numbered from 0 in the order they are made, at most retries
\* of them
AtMostRetriesAttempts ==
    LET made == EventsOf({"attempt ok", "attempt failed", "attempt crashed"})
    IN /\ Cardinality(made) <= download_retries
       /\ \A i \in made : events[i].k = Cardinality({j \in made : j < i})

\* the waits are backoff_factor * 2^i after failed attempt i, for each
\* failed attempt but a last one that raised
WaitsBetweenAttempts ==
    /\ \A j \in DOMAIN slept : slept[j] = 2 ^ (j - 1)
    /\ Len(slept) = Cardinality(EventsOf({"attempt failed"}))
                       - (IF DownloadRaised THEN 1 ELSE 0)

ReturnsOnlyAfterSuccess ==
    \A i \in EventsOf({"download returned"}) : i > 1 /\ events[i - 1].ev = "attempt ok"

RaisesWhenAllFailed ==
    /\ DownloadRaised => Cardinality(EventsOf({"attempt failed"})) = download_retries
    /\ (download_retries > 0
        /\ Cardinality(EventsOf({"attempt failed"})) = download_retries) => DownloadRaised

\* C13: for every accepted retries value (>= 0), download_data makes at most
\* retries attempts, waits backoff_factor * 2^i after failed attempt i only
\* when another attempt follows, returns normally only after an attempt that
\* succeeded, and raises ExtractionError when every attempt failed with a
\* request error.
C13_DownloadRetries ==
    /\ AtMostRetriesAttempts
    /\ WaitsBetweenAttempts
    /\ ReturnsOnlyAfterSuccess
    /\ RaisesWhenAllFailed

\* the part of C13 that download_data keeps: every case with retries >= 1
DownloadRetriesWhenPositive == download_retries >= 1 => C13_DownloadRetries

----------------------------------------------------------------------------
(* Properties of ETLPipeline.run *)

IsPhaseEvent(e) == e.ev \in {"download", "unzip", "processing"}

\* the phases the run has started, in order
PhasesStarted ==
    LET started == SelectSeq(events, IsPhaseEvent)
    IN [i \in DOMAIN started |-> started[i].ev]

\* the phases of a run in which nothing fails; in mode "process" no step
\* changes whether the archive file exists
ExpectedPhases ==
    CASE mode = "all" -> <<"download", "unzip", "processing">>
      [] mode = "download" -> <<"download", "unzip">>
      [] mode = "process" -> IF zip_exists THEN <<"unzip", "processing">>
                             ELSE <<"processing">>

C14_Invariant ==
    /\ IsPrefix(PhasesStarted, ExpectedPhases)
    /\ \A i \in EventsOf({"unzip"}) :
          mode # "process" => (i > 1 /\ events[i - 1].ev = "download returned")
    /\ pc = "returned" =>
          /\ PhasesStarted = ExpectedPhases
          /\ raised = None
          /\ exit_status = None
    /\ exit_status # None => (raised # None /\ exit_status = Some(1) /\ pc = "exited")

\* the step that follows a failure of any phase
C14_FailureExits ==
    pc \in ETLErrors \cup {"Exception"} =>
        (pc' = "exited" /\ exit_status' = Some(1) /\ events' = events)

\* C14: mode "download" runs download then unzip and never processing; mode
\* "process" never downloads, unzips first exactly when the archive file
\* exists, then processes; mode "all" runs download, unzip, processing in
\* that order; no phase starts after a failure, and the step after any
\* failure is the exit with status 1.
C14_PhaseOrdering == []C14_Invariant /\ [][C14_FailureExits]_vars

\* mode "process" with the archive in place: unzip, then processing, and the
\* run returns
C14_Witness ==
    /\ mode = "process"
    /\ zip_exists
    /\ pc = "returned"
    /\ PhasesStarted = <<"unzip", "processing">>
    /\ EventsOf({"written"}) # {}

====
